---- MODULE Spec2Model ----
(***************************************************************************)
(* A model of src/deferred.rs: Deferred, a FnOnce() stored inline if it    *)
(* is small and boxed otherwise, with the Callback dispatch it uses.       *)
(* One closure value is followed from the caller through Deferred::new     *)
(* and through every call() made on the resulting Deferred.                *)
(***************************************************************************)
EXTENDS Integers, Sequences, FiniteSets

VARIABLES
    pc,           \* position of the single thread of control
    F,            \* the closure type: [size, align, owns]
    arg,          \* the closure value the caller hands to Deferred::new
    f,            \* the binding `f` of Deferred::new: [live, bytes]
    new_vtable,   \* local `vtable` of Deferred::new
    new_data,     \* local `data` of Deferred::new
    d,            \* the Deferred
    call_vtable,  \* local `vtable` of Deferred::call (OnStack arm)
    call_boxed,   \* local `boxed` of Deferred::call (OnHeap arm)
    cb_f,         \* the binding `f` of copy_and_call / call_box: [live, bytes]
    heap,         \* the heap buffer an owning capture points to
    observed,     \* what the computation saw of its captured state
    events,       \* what has happened so far, in order
    thr           \* the locals of each thread that calls call() on a shared Deferred

vars == <<pc, F, arg, f, new_vtable, new_data, d, call_vtable, call_boxed,
          cb_f, heap, observed, events, thr>>

----------------------------------------------------------------------------
(* Bounds of the exploration. *)

\* top-level call() attempts made on the Deferred
MaxCalls == 3

\* call() attempts made from inside the running computation
MaxReenter == 1

----------------------------------------------------------------------------
(* Program constants. *)

\* mem::size_of::<Data>(), Data = [u64; 4]
DataSize == 32

\* mem::align_of::<Data>() where u64 is 8-aligned
DataAlign == 8

\* ptr::null_mut()
NULL == 0

\* size of a pointer (*mut ()), as found in a capture that owns a heap buffer
PtrSize == 8

----------------------------------------------------------------------------
(* The closures fed to Deferred::new. *)

Sizes == {0, 1, 8, 16, 24, 32, 33, 40, 48, 80}

Aligns == {1, 2, 4, 8, 16}

Seeds == {1, 2}

\* size_of is always a multiple of align_of; a capture that owns a heap
\* buffer (String, Box<[i32]>) starts with a pointer-aligned pointer.
CaptureTypes ==
    {t \in [size : Sizes, align : Aligns, owns : BOOLEAN] :
        /\ t.size % t.align = 0
        /\ t.owns => (t.size >= 2 * PtrSize /\ t.align = PtrSize)}

RECURSIVE ShiftRight(_, _)
ShiftRight(a, n) == IF n = 0 THEN a ELSE ShiftRight(a \div 256, n - 1)

\* little-endian bytes of an address
EncodeLE(a) == [i \in 1 .. PtrSize |-> ShiftRight(a, i - 1) % 256]

RECURSIVE DecodeLE(_)
DecodeLE(bs) ==
    IF bs = <<>> THEN 0 ELSE Head(bs) + 256 * DecodeLE(Tail(bs))

BufAddr(seed) == 4096 + 272 * seed

BufContent(seed) == [i \in 1 .. 3 |-> (100 + seed + i) % 256]

\* the bytes of the closure value in its own layout
Payload(t, seed) ==
    [i \in 1 .. t.size |->
        IF t.owns /\ i <= PtrSize
        THEN EncodeLE(BufAddr(seed))[i]
        ELSE (13 * seed + 7 * i) % 256]

NoHeap == [state |-> "none", addr |-> NULL, content |-> <<>>]

----------------------------------------------------------------------------
(* Callback: the vtable of `impl Callback for F`. *)

\* the vtable pointer of F's Callback implementation; never null, and
\* distinct for distinct closure types
VTableOf(t) == 64 * (t.size + 1) + 2 * t.align + (IF t.owns THEN 1 ELSE 0)

\* the closure type whose Callback implementation a vtable dispatches to
TypeOfVTable(v) == CHOOSE t \in CaptureTypes : VTableOf(t) = v

\* Data::default()
DataDefault == [i \in 1 .. DataSize |-> 0]

\* a copy that stops one byte short
CopyNonoverlappingShort(src, dst, count) ==
    [i \in 1 .. Len(dst) |-> IF i < count THEN src[i] ELSE dst[i]]

\* ptr::copy_nonoverlapping(src, dst, count): the first count bytes of dst
\* become those of src
CopyNonoverlapping(src, dst, count) ==
    [i \in 1 .. Len(dst) |-> IF i <= count THEN src[i] ELSE dst[i]]

\* ptr::read(self) for Self of the given size: the value made of the first
\* size_of::<Self>() bytes at the address
PtrRead(bytes, size) == SubSeq(bytes, 1, size)

\* a forget that is left out: the binding stays live
ForgetLeftOut(b) == b

\* mem::forget(f): the binding is gone and its destructor never runs
Forget(b) == [b EXCEPT !.live = FALSE]

\* a moved-from binding
Moved(b) == [b EXCEPT !.live = FALSE]

Dead == [live |-> FALSE, bytes |-> <<>>]

\* Box::new(f): a heap cell holding the value, behind a fat pointer
BoxNew(t, bytes) == [vtable |-> VTableOf(t), cell |-> bytes]

\* the test with both bounds exclusive
FitsInlineStrict(size, align) == size < DataSize /\ align < DataAlign

\* the test without the alignment
FitsInlineSizeOnly(size, align) == size <= DataSize

\* the test of Deferred::new for the inline representation
FitsInline(size, align) == size <= DataSize /\ align <= DataAlign

----------------------------------------------------------------------------
(* Deferred. *)

NoObject == [data |-> <<>>, vtable |-> NULL]

NoDeferred == [tag |-> "none", obj |-> NoObject, opt |-> <<>>]

\* Deferred::OnStack(InlineObject { data, vtable })
OnStack(data, vtable) ==
    [tag |-> "OnStack", obj |-> [data |-> data, vtable |-> vtable], opt |-> <<>>]

\* Deferred::OnHeap(Some(boxed))
OnHeap(boxed) == [tag |-> "OnHeap", obj |-> NoObject, opt |-> <<boxed>>]

\* a read of the vtable that leaves it in place
ReplaceVtableKeeps(obj) == obj

\* mem::replace(&mut obj.vtable, ptr::null_mut()): what is left in obj
ReplaceVtable(obj) == [obj EXCEPT !.vtable = NULL]

\* a look at the option that leaves the box in place
TakeKeeps(opt) == opt

\* opt.take(): what is left in opt
Take(opt) == <<>>

\* the dispatch handle of the Deferred is the sentinel
Sentinel(x) ==
    \/ x.tag = "OnStack" /\ x.obj.vtable = NULL
    \/ x.tag = "OnHeap" /\ x.opt = <<>>

----------------------------------------------------------------------------
(* The captured computation. *)

Count(e) == Cardinality({i \in 1 .. Len(events) : events[i] = e})

\* what the computation reads through its captured state: the bytes of the
\* capture and, for an owning capture, the buffer its pointer leads to
Sees(t, bytes, h) ==
    IF ~t.owns
    THEN {[ok |-> TRUE, bytes |-> bytes, text |-> <<>>]}
    ELSE IF /\ Len(bytes) >= PtrSize
            /\ h.state = "live"
            /\ DecodeLE(SubSeq(bytes, 1, PtrSize)) = h.addr
         THEN {[ok |-> TRUE, bytes |-> bytes, text |-> h.content]}
         ELSE \* a dangling or wild pointer: anything may be read
              {[ok |-> FALSE, bytes |-> bytes, text |-> g] : g \in {<<>>, h.content}}

\* what the caller put in
Original == [ok |-> TRUE, bytes |-> arg.bytes, text |-> arg.text]

NotSeen == [ok |-> FALSE, bytes |-> <<>>, text |-> <<>>]

\* dropping a closure value of type t releases the buffer it owns
Release(t, h) == IF t.owns THEN [h EXCEPT !.state = "freed"] ELSE h

----------------------------------------------------------------------------
(* Threads that may call call() on a Deferred handed to them. *)

Threads == {"t1", "t2"}

\* a thread that has not called call(): no locals yet
NoCall == [pc |-> "none", vtable |-> NULL, boxed |-> <<>>, raced |-> FALSE]

----------------------------------------------------------------------------
(* The caller holds a closure value and has not yet called Deferred::new. *)

Init ==
    \E t \in CaptureTypes, seed \in Seeds :
        /\ pc = "caller"
        /\ F = t
        /\ arg = [bytes |-> Payload(t, seed),
                  text |-> IF t.owns THEN BufContent(seed) ELSE <<>>]
        /\ f = [live |-> TRUE, bytes |-> Payload(t, seed)]
        /\ heap = IF t.owns
                  THEN [state |-> "live", addr |-> BufAddr(seed),
                        content |-> BufContent(seed)]
                  ELSE NoHeap
        /\ new_vtable = NULL
        /\ new_data = <<>>
        /\ d = NoDeferred
        /\ call_vtable = NULL
        /\ call_boxed = <<>>
        /\ cb_f = Dead
        /\ observed = NotSeen
        /\ events = <<>>
        /\ thr = [u \in Threads |-> NoCall]

----------------------------------------------------------------------------
(* Deferred::new *)

\* size, align and the choice of the representation
NewMeasure ==
    /\ pc = "caller"
    /\ pc' = IF FitsInline(F.size, F.align) THEN "new_vtable" ELSE "new_box"
    /\ UNCHANGED thr
    /\ UNCHANGED <<F, arg, f, new_vtable, new_data, d, call_vtable,
                   call_boxed, cb_f, heap, observed, events>>

\* the vtable of &f as a &Callback
NewVtable ==
    /\ pc = "new_vtable"
    /\ new_vtable' = VTableOf(F)
    /\ pc' = "new_copy"
    /\ UNCHANGED thr
    /\ UNCHANGED <<F, arg, f, new_data, d, call_vtable, call_boxed, cb_f,
                   heap, observed, events>>

\* the bytes of f copied into a fresh Data
NewCopy ==
    /\ pc = "new_copy"
    /\ new_data' = CopyNonoverlapping(f.bytes, DataDefault, F.size)
    /\ pc' = "new_forget"
    /\ UNCHANGED thr
    /\ UNCHANGED <<F, arg, f, new_vtable, d, call_vtable, call_boxed, cb_f,
                   heap, observed, events>>

\* mem::forget(f)
NewForget ==
    /\ pc = "new_forget"
    /\ f' = Forget(f)
    /\ pc' = "new_onstack"
    /\ UNCHANGED thr
    /\ UNCHANGED <<F, arg, new_vtable, new_data, d, call_vtable, call_boxed,
                   cb_f, heap, observed, events>>

\* Deferred::OnStack(InlineObject { data, vtable }) is returned; a binding
\* still live when the function ends is dropped there
NewOnStack ==
    /\ pc = "new_onstack"
    /\ d' = OnStack(new_data, new_vtable)
    /\ new_data' = <<>>
    /\ new_vtable' = NULL
    /\ f' = Moved(f)
    /\ events' = IF f.live THEN Append(events, "drop") ELSE events
    /\ heap' = IF f.live THEN Release(F, heap) ELSE heap
    /\ pc' = "idle"
    /\ UNCHANGED thr
    /\ UNCHANGED <<F, arg, call_vtable, call_boxed, cb_f, observed>>

\* Deferred::OnHeap(Some(Box::new(f))) is returned
NewOnHeap ==
    /\ pc = "new_box"
    /\ d' = OnHeap(BoxNew(F, f.bytes))
    /\ f' = Moved(f)
    /\ pc' = "idle"
    /\ UNCHANGED thr
    /\ UNCHANGED <<F, arg, new_vtable, new_data, call_vtable, call_boxed,
                   cb_f, heap, observed, events>>

----------------------------------------------------------------------------
(* Deferred::call *)

\* OnStack arm: the vtable is replaced by null and checked
CallOnStack ==
    /\ pc = "idle"
    /\ d.tag = "OnStack"
    /\ Count("call") < MaxCalls
    /\ LET vtable == d.obj.vtable IN
        /\ d' = [d EXCEPT !.obj = ReplaceVtable(d.obj)]
        /\ IF vtable = NULL
           THEN /\ events' = events \o <<"call", "fault">>
                /\ pc' = "idle"
                /\ UNCHANGED call_vtable
           ELSE /\ events' = Append(events, "call")
                /\ call_vtable' = vtable
                /\ pc' = "copy_and_call"
    /\ UNCHANGED thr
    /\ UNCHANGED <<F, arg, f, new_vtable, new_data, call_boxed, cb_f, heap,
                   observed>>

\* OnStack arm: the trait object is rebuilt over obj.data and
\* copy_and_call reads the closure out of it
CopyAndCall ==
    /\ pc = "copy_and_call"
    /\ cb_f' = [live |-> TRUE,
                bytes |-> PtrRead(d.obj.data, TypeOfVTable(call_vtable).size)]
    /\ call_vtable' = NULL
    /\ pc' = "invoke"
    /\ UNCHANGED thr
    /\ UNCHANGED <<F, arg, f, new_vtable, new_data, d, call_boxed, heap,
                   observed, events>>

\* a take written as a replacement of the whole Deferred by an empty one
CallOnHeapRetag ==
    /\ pc = "idle"
    /\ d.tag = "OnHeap"
    /\ Count("call") < MaxCalls
    /\ LET opt == d.opt IN
        /\ d' = OnStack(DataDefault, NULL)
        /\ IF opt = <<>>
           THEN /\ events' = events \o <<"call", "fault">>
                /\ pc' = "idle"
                /\ UNCHANGED call_boxed
           ELSE /\ events' = Append(events, "call")
                /\ call_boxed' = opt
                /\ pc' = "call_box"
    /\ UNCHANGED thr
    /\ UNCHANGED <<F, arg, f, new_vtable, new_data, call_vtable, cb_f, heap,
                   observed>>

\* OnHeap arm: the box is taken out of the option and checked
CallOnHeap ==
    /\ pc = "idle"
    /\ d.tag = "OnHeap"
    /\ Count("call") < MaxCalls
    /\ LET opt == d.opt IN
        /\ d' = [d EXCEPT !.opt = Take(d.opt)]
        /\ IF opt = <<>>
           THEN /\ events' = events \o <<"call", "fault">>
                /\ pc' = "idle"
                /\ UNCHANGED call_boxed
           ELSE /\ events' = Append(events, "call")
                /\ call_boxed' = opt
                /\ pc' = "call_box"
    /\ UNCHANGED thr
    /\ UNCHANGED <<F, arg, f, new_vtable, new_data, call_vtable, cb_f, heap,
                   observed>>

\* OnHeap arm: call_box moves the closure out of the box
CallBox ==
    /\ pc = "call_box"
    /\ cb_f' = [live |-> TRUE, bytes |-> call_boxed[1].cell]
    /\ call_boxed' = <<>>
    /\ pc' = "invoke"
    /\ UNCHANGED thr
    /\ UNCHANGED <<F, arg, f, new_vtable, new_data, d, call_vtable, heap,
                   observed, events>>

\* f(): the computation starts and reads its captured state
Invoke ==
    /\ pc = "invoke"
    /\ \E s \in Sees(F, cb_f.bytes, heap) : observed' = s
    /\ events' = Append(events, "exec")
    /\ pc' = "running"
    /\ UNCHANGED thr
    /\ UNCHANGED <<F, arg, f, new_vtable, new_data, d, call_vtable,
                   call_boxed, cb_f, heap>>

\* the computation ends, its captured state is dropped, call() returns
Complete ==
    /\ pc = "running"
    /\ cb_f' = Moved(cb_f)
    /\ heap' = Release(F, heap)
    /\ events' = events \o <<"drop", "return">>
    /\ pc' = "idle"
    /\ UNCHANGED thr
    /\ UNCHANGED <<F, arg, f, new_vtable, new_data, d, call_vtable,
                   call_boxed, observed>>

\* the computation panics: unwinding drops its captured state and call()
\* does not return
Unwind ==
    /\ pc = "running"
    /\ cb_f' = Moved(cb_f)
    /\ heap' = Release(F, heap)
    /\ events' = events \o <<"drop", "unwind">>
    /\ pc' = "idle"
    /\ UNCHANGED thr
    /\ UNCHANGED <<F, arg, f, new_vtable, new_data, d, call_vtable,
                   call_boxed, observed>>

\* the running computation calls call() on its own Deferred (OnStack arm);
\* a dispatch that went through would run the computation on a second copy
ReenterOnStack ==
    /\ pc = "running"
    /\ d.tag = "OnStack"
    /\ Count("reenter") < MaxReenter
    /\ LET vtable == d.obj.vtable IN
        /\ d' = [d EXCEPT !.obj = ReplaceVtable(d.obj)]
        /\ IF vtable = NULL
           THEN /\ events' = events \o <<"reenter", "fault">>
                /\ UNCHANGED heap
           ELSE /\ events' = events \o <<"reenter", "exec", "drop">>
                /\ heap' = Release(F, heap)
    /\ UNCHANGED thr
    /\ UNCHANGED <<pc, F, arg, f, new_vtable, new_data, call_vtable,
                   call_boxed, cb_f, observed>>

\* the running computation calls call() on its own Deferred (OnHeap arm)
ReenterOnHeap ==
    /\ pc = "running"
    /\ d.tag = "OnHeap"
    /\ Count("reenter") < MaxReenter
    /\ LET opt == d.opt IN
        /\ d' = [d EXCEPT !.opt = Take(d.opt)]
        /\ IF opt = <<>>
           THEN /\ events' = events \o <<"reenter", "fault">>
                /\ UNCHANGED heap
           ELSE /\ events' = events \o <<"reenter", "exec", "drop">>
                /\ heap' = Release(F, heap)
    /\ UNCHANGED thr
    /\ UNCHANGED <<pc, F, arg, f, new_vtable, new_data, call_vtable,
                   call_boxed, cb_f, observed>>

----------------------------------------------------------------------------
(* The Deferred goes out of scope. *)

\* a drop that also releases what an inline object with a live vtable holds
DropsCapturedInlineToo(x) ==
    \/ x.tag = "OnHeap" /\ x.opt # <<>>
    \/ x.tag = "OnStack" /\ x.obj.vtable # NULL

\* a drop that releases the captured state of an OnHeap whatever its option
DropsCapturedAfterTake(x) == x.tag = "OnHeap"

\* whether dropping the Deferred drops the captured state: InlineObject is
\* two plain fields and has no destructor; Option<Box<Callback>> drops the
\* boxed closure if it is Some
DropsCaptured(x) == x.tag = "OnHeap" /\ x.opt # <<>>

\* the holder lets go of the Deferred; its fields are not written
Discard ==
    /\ pc = "idle"
    /\ pc' = "discarded"
    /\ events' = IF DropsCaptured(d)
                 THEN events \o <<"discard", "drop">>
                 ELSE Append(events, "discard")
    /\ heap' = IF DropsCaptured(d) THEN Release(F, heap) ELSE heap
    /\ UNCHANGED thr
    /\ UNCHANGED <<F, arg, f, new_vtable, new_data, d, call_vtable,
                   call_boxed, cb_f, observed>>

Next ==
    \/ NewMeasure
    \/ NewVtable
    \/ NewCopy
    \/ NewForget
    \/ NewOnStack
    \/ NewOnHeap
    \/ CallOnStack
    \/ CopyAndCall
    \/ CallOnHeap
    \/ CallBox
    \/ Invoke
    \/ Complete
    \/ Unwind
    \/ ReenterOnStack
    \/ ReenterOnHeap
    \/ Discard

Spec == Init /\ [][Next]_vars

----------------------------------------------------------------------------
(* Deferred::call made by threads the Deferred was handed to.  call() has  *)
(* no lock and no atomic: mem::replace and Option::take are a plain read   *)
(* followed by a plain write, and steps of two threads interleave.         *)

Others(t) == Threads \ {t}

InCall(u) == thr[u].pc \notin {"none", "done"}

RaceUnchanged == UNCHANGED <<pc, F, arg, f, new_vtable, new_data,
                             call_vtable, call_boxed, cb_f>>

\* thread t enters call(); it overlaps every call() still in progress
ThreadCall(t) ==
    /\ pc = "idle"
    /\ thr[t].pc = "none"
    /\ thr' = [u \in Threads |->
                IF u = t
                THEN [thr[u] EXCEPT
                        !.pc = IF d.tag = "OnStack" THEN "replace_read"
                                                    ELSE "take_read",
                        !.raced = \E o \in Others(t) : InCall(o)]
                ELSE IF InCall(u) THEN [thr[u] EXCEPT !.raced = TRUE]
                ELSE thr[u]]
    /\ events' = Append(events, "call")
    /\ UNCHANGED <<d, heap, observed>>
    /\ RaceUnchanged

\* OnStack arm, mem::replace: the old vtable is read
ThreadReplaceRead(t) ==
    /\ thr[t].pc = "replace_read"
    /\ thr' = [thr EXCEPT ![t].vtable = d.obj.vtable, ![t].pc = "replace_write"]
    /\ UNCHANGED <<d, heap, observed, events>>
    /\ RaceUnchanged

\* OnStack arm, mem::replace: null is written
ThreadReplaceWrite(t) ==
    /\ thr[t].pc = "replace_write"
    /\ d' = [d EXCEPT !.obj = ReplaceVtable(d.obj)]
    /\ thr' = [thr EXCEPT ![t].pc = "assert"]
    /\ UNCHANGED <<heap, observed, events>>
    /\ RaceUnchanged

\* OnStack arm: assert!(!vtable.is_null())
ThreadAssert(t) ==
    /\ thr[t].pc = "assert"
    /\ IF thr[t].vtable = NULL
       THEN /\ events' = Append(events, "fault")
            /\ thr' = [thr EXCEPT ![t].pc = "done"]
       ELSE /\ thr' = [thr EXCEPT ![t].pc = "copy_and_call"]
            /\ UNCHANGED events
    /\ UNCHANGED <<d, heap, observed>>
    /\ RaceUnchanged

\* OnStack arm: copy_and_call reads the closure out of obj.data, runs it
\* and drops it
ThreadCopyAndCall(t) ==
    /\ thr[t].pc = "copy_and_call"
    /\ \E s \in Sees(F, PtrRead(d.obj.data, TypeOfVTable(thr[t].vtable).size),
                     heap) : observed' = s
    /\ heap' = Release(F, heap)
    /\ events' = events \o <<"exec", "drop">>
    /\ thr' = [thr EXCEPT ![t].vtable = NULL, ![t].pc = "done"]
    /\ UNCHANGED d
    /\ RaceUnchanged

\* OnHeap arm, Option::take: the option is read
ThreadTakeRead(t) ==
    /\ thr[t].pc = "take_read"
    /\ thr' = [thr EXCEPT ![t].boxed = d.opt, ![t].pc = "take_write"]
    /\ UNCHANGED <<d, heap, observed, events>>
    /\ RaceUnchanged

\* OnHeap arm, Option::take: None is written
ThreadTakeWrite(t) ==
    /\ thr[t].pc = "take_write"
    /\ d' = [d EXCEPT !.opt = Take(d.opt)]
    /\ thr' = [thr EXCEPT ![t].pc = "expect"]
    /\ UNCHANGED <<heap, observed, events>>
    /\ RaceUnchanged

\* OnHeap arm: expect("cannot call `FnOnce` more than once")
ThreadExpect(t) ==
    /\ thr[t].pc = "expect"
    /\ IF thr[t].boxed = <<>>
       THEN /\ events' = Append(events, "fault")
            /\ thr' = [thr EXCEPT ![t].pc = "done"]
       ELSE /\ thr' = [thr EXCEPT ![t].pc = "call_box"]
            /\ UNCHANGED events
    /\ UNCHANGED <<d, heap, observed>>
    /\ RaceUnchanged

\* OnHeap arm: call_box moves the closure out of the box, runs it and
\* drops it
ThreadCallBox(t) ==
    /\ thr[t].pc = "call_box"
    /\ \E s \in Sees(F, thr[t].boxed[1].cell, heap) : observed' = s
    /\ heap' = Release(F, heap)
    /\ events' = events \o <<"exec", "drop">>
    /\ thr' = [thr EXCEPT ![t].boxed = <<>>, ![t].pc = "done"]
    /\ UNCHANGED d
    /\ RaceUnchanged

NextRace ==
    \/ NewMeasure
    \/ NewVtable
    \/ NewCopy
    \/ NewForget
    \/ NewOnStack
    \/ NewOnHeap
    \/ \E t \in Threads : ThreadCall(t)
    \/ \E t \in Threads : ThreadReplaceRead(t)
    \/ \E t \in Threads : ThreadReplaceWrite(t)
    \/ \E t \in Threads : ThreadAssert(t)
    \/ \E t \in Threads : ThreadCopyAndCall(t)
    \/ \E t \in Threads : ThreadTakeRead(t)
    \/ \E t \in Threads : ThreadTakeWrite(t)
    \/ \E t \in Threads : ThreadExpect(t)
    \/ \E t \in Threads : ThreadCallBox(t)

SpecRace == Init /\ [][NextRace]_vars

----------------------------------------------------------------------------
(* What the properties below speak of. *)

\* the captured state fits the inline capacity and alignment
FitsInlineBounds == F.size <= 32 /\ F.align <= 8

Constructed == d.tag # "none"

\* no call() is in progress
Quiescent == pc = "idle"

\* a top-level call() at position i of the events
IsCall(i) == i \in 1 .. Len(events) /\ events[i] = "call"

\* the call() at position i signalled AlreadyInvoked
Faulted(i) == i < Len(events) /\ events[i + 1] = "fault"

\* top-level call() attempts that signalled AlreadyInvoked
TopFaults == Cardinality({i \in 1 .. Len(events) : IsCall(i) /\ Faulted(i)})

\* the places that hold the captured state as something that can still be
\* run or dropped.  Between copy_nonoverlapping and mem::forget the bytes
\* exist twice, but only the binding f is a closure value: data is a plain
\* [u64; 4] until f is forgotten.
Owners ==
    (IF f.live THEN {"caller"} ELSE {})
    \cup (IF ~f.live /\ new_data # <<>> THEN {"new"} ELSE {})
    \cup (IF Constructed /\ ~Sentinel(d) /\ pc # "discarded"
          THEN {"deferred"} ELSE {})
    \cup (IF call_vtable # NULL \/ call_boxed # <<>> THEN {"call"} ELSE {})
    \cup (IF cb_f.live THEN {"computation"} ELSE {})

----------------------------------------------------------------------------
(* C1: for a capture that fits inline (size <= 32, align <= 8), once the   *)
(* one call() made on the Deferred has returned, the computation has run   *)
(* exactly once, the captured state has been dropped exactly once, and     *)
(* the Deferred owns nothing of it any more.                               *)
C1_InlineCallOnce ==
    (FitsInlineBounds /\ Quiescent /\ Count("call") = 1 /\ Count("return") = 1)
        => /\ Count("exec") = 1
           /\ Count("drop") = 1
           /\ Sentinel(d)
           /\ Owners = {}
           /\ heap.state # "live"

C1_Witness ==
    /\ FitsInlineBounds /\ F.owns /\ d.tag = "OnStack"
    /\ events = <<"call", "exec", "drop", "return">>

(* C2: for a capture that exceeds the inline capacity or alignment, once   *)
(* the one call() has returned, the computation has run exactly once, the  *)
(* captured state has been dropped exactly once, and the Option of the     *)
(* Deferred is None.                                                       *)
C2_HeapCallOnce ==
    (~FitsInlineBounds /\ Quiescent /\ Count("call") = 1 /\ Count("return") = 1)
        => /\ Count("exec") = 1
           /\ Count("drop") = 1
           /\ d.tag = "OnHeap"
           /\ d.opt = <<>>
           /\ call_boxed = <<>>
           /\ ~cb_f.live
           /\ heap.state # "live"

C2_Witness ==
    /\ ~FitsInlineBounds /\ F.owns /\ d.tag = "OnHeap" /\ d.opt = <<>>
    /\ events = <<"call", "exec", "drop", "return">>

(* C3: every call() made after the first one signals AlreadyInvoked and    *)
(* neither runs the computation nor drops the captured state again: after  *)
(* n >= 1 attempts the computation has run once, the state has been        *)
(* dropped once, and n - 1 attempts have faulted, none of them returning.  *)
C3_LaterCallsFault ==
    /\ \A i \in 1 .. Len(events) :
          (IsCall(i) /\ \E j \in 1 .. i - 1 : IsCall(j)) => Faulted(i)
    /\ (Constructed /\ Quiescent /\ Count("call") >= 1)
          => /\ Count("exec") = 1
             /\ Count("drop") = 1
             /\ TopFaults = Count("call") - 1
             /\ Count("return") + Count("unwind") = 1

C3_Witness ==
    /\ Quiescent /\ Count("call") = 3 /\ TopFaults = 2
    /\ Count("return") = 1

(* C4: Deferred::new builds the inline variant exactly when size <= 32     *)
(* and align <= 8, both bounds included, and the heap variant otherwise.   *)
C4_InlineIffFits ==
    Constructed =>
        /\ d.tag = "OnStack" <=> (F.size <= 32 /\ F.align <= 8)
        /\ d.tag = "OnHeap" <=> (F.size > 32 \/ F.align > 8)

C4_Witness ==
    /\ Constructed /\ F.size = 32 /\ F.align = 8 /\ d.tag = "OnStack"

(* C5 as stated: a zero-sized capture is always stored inline, its first   *)
(* call() runs the computation once on an empty buffer, and a second       *)
(* call() signals AlreadyInvoked.                                          *)
C5_Original ==
    (F.size = 0 /\ Constructed) =>
        /\ d.tag = "OnStack"
        /\ d.obj.data = DataDefault
        /\ Count("exec") >= 1 => (observed.ok /\ observed.bytes = <<>>)
        /\ (Quiescent /\ Count("call") >= 1)
              => (Count("exec") = 1 /\ TopFaults = Count("call") - 1)

(* C5 as amended: a zero-sized capture is stored inline exactly when its   *)
(* alignment is at most 8 (with zero bytes copied into the buffer) and in  *)
(* the heap variant otherwise; in both cases its first call() runs the     *)
(* computation once on an empty state and every later call() signals       *)
(* AlreadyInvoked.                                                         *)
C5_ZeroSized ==
    (F.size = 0 /\ Constructed) =>
        /\ d.tag = "OnStack" <=> F.align <= 8
        /\ d.tag = "OnHeap" <=> F.align > 8
        /\ d.tag = "OnStack" => d.obj.data = DataDefault
        /\ Count("exec") >= 1 => (observed.ok /\ observed.bytes = <<>>)
        /\ (Quiescent /\ Count("call") >= 1)
              => (Count("exec") = 1 /\ TopFaults = Count("call") - 1)

C5_Witness ==
    /\ F.size = 0 /\ d.tag = "OnStack" /\ Quiescent
    /\ Count("call") = 2 /\ Count("exec") = 1 /\ TopFaults = 1

(* C6: what the computation observes of its captured state when call()     *)
(* runs it equals what was handed to Deferred::new, in both variants: the  *)
(* bytes of the capture and, for a capture that owns a heap buffer, the    *)
(* content of that buffer.                                                 *)
C6_RoundTrip == Count("exec") >= 1 => observed = Original

C6_Witness ==
    /\ Count("exec") = 1 /\ F.owns /\ F.size = 24 /\ d.tag = "OnStack"
    /\ observed.ok /\ observed.text = arg.text /\ observed.text # <<>>

(* C7: the dispatch handle is already the sentinel at every point from     *)
(* the moment call() has checked it until the computation is over; a       *)
(* call() made from inside the running computation, and a call() made      *)
(* after the computation has aborted, signal AlreadyInvoked, and the       *)
(* computation never runs a second time.                                   *)
C7_ClearedBeforeRun ==
    /\ pc \in {"copy_and_call", "call_box", "invoke", "running"} => Sentinel(d)
    /\ Count("exec") <= 1
    /\ \A i \in 1 .. Len(events) : events[i] = "reenter" => Faulted(i)
    /\ \A i \in 1 .. Len(events) :
          (IsCall(i) /\ \E j \in 1 .. i - 1 : events[j] = "unwind") => Faulted(i)

C7_Witness ==
    /\ d.tag = "OnHeap"
    /\ \E i \in 1 .. Len(events) : events[i] = "reenter" /\ Faulted(i)
    /\ \E j \in 1 .. Len(events) :
          /\ events[j] = "unwind"
          /\ \E i \in j + 1 .. Len(events) : IsCall(i) /\ Faulted(i)

(* C8: the dispatch handle of a Deferred is non-sentinel exactly as long   *)
(* as no call() has been started on it, and once it is the sentinel no     *)
(* step makes it non-sentinel again.                                       *)
HandleTracksCalls == Constructed => (~Sentinel(d) <=> Count("call") = 0)

C8_HandleOneWay ==
    [][/\ HandleTracksCalls
       /\ HandleTracksCalls'
       /\ (Constructed /\ Sentinel(d)) => Sentinel(d')]_vars

C8_Witness ==
    /\ d.tag = "OnStack" /\ Sentinel(d) /\ Quiescent
    /\ Count("call") = 3 /\ TopFaults = 2

(* C9: the variant Deferred::new chose is the one the Deferred keeps: no   *)
(* call(), returning or faulting, changes the tag, and the fields of the   *)
(* other variant are never populated.                                      *)
OneVariant ==
    Constructed =>
        /\ d.tag \in {"OnStack", "OnHeap"}
        /\ d.tag = "OnStack" => (d.opt = <<>> /\ Len(d.obj.data) = DataSize)
        /\ d.tag = "OnHeap" => d.obj = NoObject

C9_VariantFixed ==
    [][/\ OneVariant
       /\ OneVariant'
       /\ Constructed => d'.tag = d.tag]_vars

C9_Witness ==
    /\ d.tag = "OnHeap" /\ Quiescent /\ Count("call") = 2 /\ TopFaults = 1

(* C10: the captured state never has two owners; as long as the Deferred   *)
(* is held it has exactly one until it is dropped and none afterwards:     *)
(* the caller up to the hand-over in Deferred::new, the Deferred from its  *)
(* construction until call() begins, the call in progress and then the     *)
(* running computation during call().                                      *)
C10_SingleOwner ==
    /\ Cardinality(Owners) <= 1
    /\ (Count("drop") = 0 /\ pc # "discarded") => Cardinality(Owners) = 1
    /\ Count("drop") >= 1 => Owners = {}
    /\ pc \in {"caller", "new_vtable", "new_copy", "new_forget", "new_box"}
          => Owners = {"caller"}
    /\ pc = "new_onstack" => Owners = {"new"}
    /\ (Constructed /\ Count("call") = 0 /\ pc # "discarded")
          => Owners = {"deferred"}
    /\ pc \in {"copy_and_call", "call_box"} => Owners = {"call"}
    /\ pc \in {"invoke", "running"} => Owners = {"computation"}

C10_Witness ==
    /\ pc = "running" /\ d.tag = "OnStack" /\ F.size > 0
    /\ PtrRead(d.obj.data, F.size) = cb_f.bytes
    /\ Owners = {"computation"}

(* C11: Deferred::new never gets stuck and returns a Deferred whose        *)
(* dispatch handle is not the sentinel; neither while it runs nor when it  *)
(* has returned has the computation been run or the captured state been    *)
(* dropped, in both variants, and the original binding is no longer live.  *)
InNew == pc \in {"caller", "new_vtable", "new_copy", "new_forget",
                 "new_onstack", "new_box"}

C11_NewOnlyConstructs ==
    /\ InNew => /\ ENABLED (NewMeasure \/ NewVtable \/ NewCopy \/ NewForget
                            \/ NewOnStack \/ NewOnHeap)
                /\ events = <<>>
                /\ ~Constructed
    /\ (pc = "idle" /\ Count("call") = 0)
          => /\ Constructed
             /\ ~Sentinel(d)
             /\ Count("exec") = 0
             /\ Count("drop") = 0
             /\ ~f.live
             /\ F.owns => heap.state = "live"

C11_Witness ==
    /\ pc = "idle" /\ events = <<>> /\ d.tag = "OnStack" /\ F.owns
    /\ d.obj.vtable = VTableOf(F)

(* C13: over any life of a Deferred (new, any number of call() attempts,   *)
(* then letting go of it) the computation runs at most once and the        *)
(* captured state is dropped at most once; letting go of a Deferred that   *)
(* was never invoked does not run the computation, and letting go of one   *)
(* that was invoked drops nothing further.                                 *)
Discarded == pc = "discarded"

C13_AtMostOnce ==
    /\ Count("exec") <= 1
    /\ Count("drop") <= 1
    /\ (Discarded /\ Count("call") = 0) => Count("exec") = 0
    /\ (Discarded /\ Count("call") >= 1)
          => /\ Count("exec") = 1
             /\ Count("drop") = 1
             /\ events[Len(events)] = "discard"

C13_Witness ==
    /\ Discarded /\ d.tag = "OnHeap" /\ F.owns
    /\ Count("call") = 2 /\ TopFaults = 1 /\ Count("drop") = 1
    /\ events[Len(events)] = "discard"

(* C14: letting go of a Deferred that was never invoked drops the          *)
(* captured state exactly once if it is the heap variant (through the      *)
(* Box) and not at all if it is the inline variant: an inline capture is   *)
(* released by call() alone, and a buffer it owns stays allocated.         *)
C14_DropByVariant ==
    (Discarded /\ Count("call") = 0) =>
        /\ d.tag = "OnHeap"
              => (Count("drop") = 1 /\ (F.owns => heap.state = "freed"))
        /\ d.tag = "OnStack"
              => (Count("drop") = 0 /\ (F.owns => heap.state = "live"))

C14_Witness ==
    /\ Discarded /\ Count("call") = 0 /\ d.tag = "OnStack" /\ F.owns
    /\ d.obj.vtable # NULL /\ heap.state = "live" /\ Count("drop") = 0

(* C12: call() takes no lock, so invoke-once rests on there being a single *)
(* invoker at a time.  If no two call()s on the Deferred overlap, the      *)
(* computation runs at most once and its state is dropped at most once,    *)
(* and once the threads that called are done it has run exactly once, on   *)
(* the state handed to new, every other call having faulted; a Deferred    *)
(* built on one thread and invoked by exactly one other runs it once.      *)
(* Only calls that overlap can run the computation twice.                  *)
Started == {u \in Threads : thr[u].pc # "none"}

Raced == \E u \in Threads : thr[u].raced

AllDone == Started # {} /\ \A u \in Started : thr[u].pc = "done"

C12_SingleInvoker ==
    /\ ~Raced => (Count("exec") <= 1 /\ Count("drop") <= 1)
    /\ (~Raced /\ AllDone)
          => /\ Count("exec") = 1
             /\ Count("drop") = 1
             /\ observed = Original
             /\ Count("fault") = Cardinality(Started) - 1
             /\ Sentinel(d)
    /\ Count("exec") >= 2 => (\A u \in Threads : thr[u].raced)

\* two overlapping call()s both got past the check and ran the computation
C12_Witness ==
    /\ \A u \in Threads : thr[u].raced /\ thr[u].pc = "done"
    /\ Count("exec") = 2 /\ Count("drop") = 2 /\ Count("fault") = 0

\* a Deferred handed over to one thread, which ran the computation once
C12_HandOver ==
    /\ Cardinality(Started) = 1 /\ AllDone /\ ~Raced
    /\ Count("exec") = 1 /\ observed = Original

====
